---- MODULE Spec2Model ----
(***************************************************************************)
(* Budget-Dekho: the balance ledger of src/actions/transaction.js          *)
(* (createTransaction, updateTransaction) and the receipt-scan             *)
(* reconciler of the transaction form (AddTransactionForm,                 *)
(* ReceiptScanner).                                                        *)
(*                                                                         *)
(* Spec        the server actions running against the relational store     *)
(* FormSpec    the client form, the scanner and the draft reconciler       *)
(* RescanSpec  the scanner used repeatedly on an otherwise untouched form  *)
(* DraftSpec   the first receipt of a form, over many answers of the model *)
(* MoneySpec   the ledger's arithmetic on amounts with decimals             *)
(* RecurSpec   the recurrence fields of the records the actions write      *)
(***************************************************************************)
EXTENDS Integers, Sequences, FiniteSets, TLC

(***************************************************************************)
(* Bounds of the model.                                                    *)
(***************************************************************************)
MaxCalls == 2       \* server-action invocations in one behaviour
MaxTxns == 2        \* transaction rows the store can hold
MaxAmount == 2      \* amounts are 1..MaxAmount
InitialBalance == 5 \* balance every account starts with

Calls == 1..MaxCalls
TxnIds == 1..MaxTxns
Amounts == 1..MaxAmount
Types == {"EXPENSE", "INCOME"}
Accounts == {"a1", "a2"}
\* an account id that names no row of the account table
AccountIdInputs == Accounts \cup {"a0"}
\* auth(): no session, a session with a user row, a session without one
UserIds == {"null", "u1", "u2"}
DbUsers == {"u1"}
Decisions == {"allow", "rateLimit", "denied"}
Outcomes == {"commit", "recordWriteFails", "balanceWriteFails"}

NoTxn == [type |-> "none", amount |-> 0, accountId |-> "none"]
NoData == NoTxn

VARIABLES
    db,      \* the relational store: account balances and transaction rows
    call,    \* the server-action invocations, each at its await point
    ui       \* the transaction form, its receipt scanner and their refs

(***************************************************************************)
(* Ledger arithmetic.                                                      *)
(***************************************************************************)
\* data.type === "EXPENSE" ? -data.amount : data.amount
BalanceChange(type, amount) == IF type = "EXPENSE" THEN -amount ELSE amount

\* account.balance.toNumber() + balanceChange
NewBalance(balance, data) == balance + BalanceChange(data.type, data.amount)

\* newBalanceChange - oldBalanceChange
NetBalanceChange(original, data) ==
    BalanceChange(data.type, data.amount)
        - BalanceChange(original.type, original.amount)

RECURSIVE SumOf(_, _)
SumOf(f, S) ==
    IF S = {} THEN 0
    ELSE LET x == CHOOSE y \in S : TRUE IN f[x] + SumOf(f, S \ {x})

\* the signed sum of the transactions recorded against account a
SignedSum(txns, a) ==
    SumOf([i \in TxnIds |-> BalanceChange(txns[i].type, txns[i].amount)],
          {i \in TxnIds : txns[i] # NoTxn /\ txns[i].accountId = a})

(***************************************************************************)
(* The store.                                                              *)
(***************************************************************************)
\* db.$transaction(async (tx) => {...}): the callback's writes are
\* committed together, and a throw inside the callback rolls all of them
\* back.  before: the store as it is; afterRecord: with the record write
\* alone; afterBoth: with the record write and the balance write.
DbTransactionNoRollback(outcome, before, afterRecord, afterBoth) ==
    CASE outcome = "commit" -> afterBoth
      [] outcome = "balanceWriteFails" -> afterRecord
      [] OTHER -> before

DbTransaction(outcome, before, afterRecord, afterBoth) ==
    IF outcome = "commit" THEN afterBoth ELSE before

\* tx.transaction.create / tx.transaction.update: the row takes the data
WriteRecord(store, id, data) ==
    [store EXCEPT !.txns[id] = [type |-> data.type, amount |-> data.amount,
                                accountId |-> data.accountId],
                  !.recordWrites = @ + 1]

\* tx.account.update({ data: { balance: newBalance } })
SetBalance(store, a, newBalance) ==
    [store EXCEPT !.balance[a] = newBalance, !.balanceWrites = @ + 1]

\* tx.account.update({ data: { balance: { increment: netBalanceChange } } })
IncrementBalance(store, a, net) ==
    [store EXCEPT !.balance[a] = @ + net, !.balanceWrites = @ + 1]

\* aj.protect(req, { userId, requested: 1 }): a request is counted
Protect(store) == [store EXCEPT !.rateRequests = @ + 1]

\* model.generateContent([...]): the AI service is called
GenerateContent(store) == [store EXCEPT !.aiCalls = @ + 1]

\* a server action without its test on userId: it goes on as after
NoAuthGate(userId, store, after) == after

\* if (!userId) throw new Error("Unauthorized"): nothing of what follows
\* in the action happens when no user is signed in
AuthGate(userId, store, after) == IF userId = "null" THEN store ELSE after

FreeIds == {i \in TxnIds : db.txns[i] = NoTxn}
NextId == CHOOSE i \in FreeIds : \A j \in FreeIds : i <= j

(***************************************************************************)
(* Invocations.                                                            *)
(***************************************************************************)
IdleCall == [pc |-> "idle", op |-> "none", id |-> 0, data |-> NoData,
             account |-> 0, original |-> NoTxn, net |-> 0, newBalance |-> 0,
             outcome |-> "none", error |-> "none", overlapped |-> FALSE]

Active(c) == call[c].pc \in {"findAccount", "findOriginal", "transaction"}
Creating == {c \in Calls : Active(c) /\ call[c].op = "create"}

\* c starts running: it overlaps every invocation that is still running
Start(c, op, id, data, pc) ==
    LET others == {d \in Calls : d # c /\ Active(d)} IN
    call' = [d \in Calls |->
        IF d = c THEN [call[c] EXCEPT !.pc = pc, !.op = op, !.id = id,
                                      !.data = data,
                                      !.overlapped = (others # {})]
        ELSE IF d \in others THEN [call[d] EXCEPT !.overlapped = TRUE]
        ELSE call[d]]

\* a finished invocation keeps what it was and how it ended
Ended(c, pc, op, id, data, outcome, error) ==
    [IdleCall EXCEPT !.pc = pc, !.op = op, !.id = id, !.data = data,
                     !.original = IF pc = "done" THEN call[c].original
                                  ELSE NoTxn,
                     !.outcome = outcome, !.error = error,
                     !.overlapped = call[c].overlapped]

Fail(c, op, error) ==
    call' = [call EXCEPT
                ![c] = Ended(c, "failed", op, 0, NoData, "none", error)]

DataInputs == [type : Types, amount : Amounts, accountId : AccountIdInputs]

\* the limiter's decision taken for an allowance whatever it is
NeverDenied(decision) == FALSE

\* decision.isDenied(), and decision.reason.isRateLimit()
IsDenied(decision) == decision # "allow"
IsRateLimit(decision) == decision = "rateLimit"

\* createTransaction, up to the user lookup
CreateBegin(c, data, userId, decision) ==
    /\ call[c].pc = "idle"
    /\ Cardinality(FreeIds) > Cardinality(Creating)
    /\ db' = AuthGate(userId, db, Protect(db))
    /\ UNCHANGED ui
    /\ IF userId = "null" THEN Fail(c, "create", "Unauthorized")
       ELSE IF IsDenied(decision)
            THEN IF IsRateLimit(decision)
                 THEN Fail(c, "create",
                           "Too many requests. Please try again later.")
                 ELSE Fail(c, "create", "Request blocked")
       ELSE IF userId \notin DbUsers
            THEN Fail(c, "create", "User not found")
       ELSE Start(c, "create", 0, data, "findAccount")

\* db.account.findUnique and the new balance computed from what it returned
CreateFindAccount(c) ==
    /\ call[c].pc = "findAccount"
    /\ UNCHANGED <<db, ui>>
    /\ IF call[c].data.accountId \notin Accounts
       THEN Fail(c, "create", "Account not found")
       ELSE LET balance == db.balance[call[c].data.accountId] IN
            call' = [call EXCEPT
                ![c].pc = "transaction",
                ![c].account = balance,
                ![c].newBalance = NewBalance(balance, call[c].data)]

\* db.$transaction: tx.transaction.create, then tx.account.update
CreateTransaction(c, outcome) ==
    /\ call[c].pc = "transaction"
    /\ call[c].op = "create"
    /\ LET data == call[c].data
           afterRecord == WriteRecord(db, NextId, data)
           afterBoth == SetBalance(afterRecord, data.accountId,
                                   call[c].newBalance)
       IN  /\ db' = DbTransaction(outcome, db, afterRecord, afterBoth)
           /\ UNCHANGED ui
           /\ IF outcome = "commit"
              THEN call' = [call EXCEPT ![c] =
                        Ended(c, "done", "create", NextId, data, outcome,
                              "none")]
              ELSE call' = [call EXCEPT ![c] =
                        Ended(c, "failed", "create", 0, NoData, outcome,
                              "PersistenceError")]

\* updateTransaction, up to the user lookup
UpdateBegin(c, id, data, userId) ==
    /\ call[c].pc = "idle"
    /\ UNCHANGED <<db, ui>>
    /\ IF userId = "null" THEN Fail(c, "update", "Unauthorized")
       ELSE IF userId \notin DbUsers
            THEN Fail(c, "update", "User not found")
       ELSE Start(c, "update", id, data, "findOriginal")

\* db.transaction.findUnique and the balance changes computed from it
UpdateFindOriginal(c) ==
    /\ call[c].pc = "findOriginal"
    /\ UNCHANGED <<db, ui>>
    /\ LET original == db.txns[call[c].id] IN
       IF original = NoTxn
       THEN Fail(c, "update", "Transaction not found")
       ELSE call' = [call EXCEPT
                ![c].pc = "transaction",
                ![c].original = original,
                ![c].net = NetBalanceChange(original, call[c].data)]

\* db.$transaction: tx.transaction.update, then tx.account.update on
\* data.accountId.  A row naming an account that does not exist violates
\* the foreign key, so the record write throws.
UpdateTransaction(c, outcome) ==
    /\ call[c].pc = "transaction"
    /\ call[c].op = "update"
    /\ call[c].data.accountId \notin Accounts => outcome = "recordWriteFails"
    /\ LET data == call[c].data
           afterRecord == WriteRecord(db, call[c].id, data)
           afterBoth == IF data.accountId \in Accounts
                        THEN IncrementBalance(afterRecord, data.accountId,
                                              call[c].net)
                        ELSE afterRecord
       IN  /\ db' = DbTransaction(outcome, db, afterRecord, afterBoth)
           /\ UNCHANGED ui
           /\ IF outcome = "commit"
              THEN call' = [call EXCEPT ![c] =
                        Ended(c, "done", "update", call[c].id, data, outcome,
                              "none")]
              ELSE call' = [call EXCEPT ![c] =
                        Ended(c, "failed", "update", 0, NoData, outcome,
                              "PersistenceError")]

(***************************************************************************)
(* JavaScript values.  A string is a sequence of one-character strings, so *)
(* that trim, toLowerCase, parseFloat and the date pattern are computed.   *)
(* A number is kept in hundredths (12.5 is 1250), and a Date as the hour   *)
(* of UTC time it falls in (year, month, day, hour as yyyymmddhh).         *)
(***************************************************************************)
Undefined == [t |-> "undefined", n |-> 0, s |-> <<>>]
NaN == [t |-> "NaN", n |-> 0, s |-> <<>>]
InvalidDate == [t |-> "invalidDate", n |-> 0, s |-> <<>>]
\* the number that is h hundredths, and the whole number n
Number(h) == [t |-> "number", n |-> h, s |-> <<>>]
Num(n) == Number(n * 100)
Str(s) == [t |-> "string", n |-> 0, s |-> s]
\* the Date at hour h (UTC) of a day, and the one at its UTC midnight
DateAt(y, m, d, h) ==
    [t |-> "date", n |-> (y * 10000 + m * 100 + d) * 100 + h, s |-> <<>>]
DateOf(y, m, d) == DateAt(y, m, d, 0)

DigitChars == <<"0", "1", "2", "3", "4", "5", "6", "7", "8", "9">>
IsDigit(c) == \E i \in 1..10 : DigitChars[i] = c
DigitVal(c) == (CHOOSE i \in 1..10 : DigitChars[i] = c) - 1
IsSpace(c) == c = " "

\* !v
Falsy(v) ==
    \/ v.t \in {"undefined", "NaN"}
    \/ v.t = "number" /\ v.n = 0
    \/ v.t = "string" /\ v.s = <<>>

RECURSIVE TrimStart(_)
TrimStart(s) ==
    IF s # <<>> /\ IsSpace(Head(s)) THEN TrimStart(Tail(s)) ELSE s

RECURSIVE TrimEnd(_)
TrimEnd(s) ==
    IF s # <<>> /\ IsSpace(s[Len(s)])
    THEN TrimEnd(SubSeq(s, 1, Len(s) - 1)) ELSE s

\* String.prototype.trim
Trim(s) == TrimEnd(TrimStart(s))

LowerOf(c) ==
    CASE c = "F" -> "f" [] c = "S" -> "s" [] c = "T" -> "t"
      [] c = "O" -> "o" [] c = "D" -> "d" [] OTHER -> c

\* String.prototype.toLowerCase
ToLowerCase(s) == [i \in 1..Len(s) |-> LowerOf(s[i])]

\* the longest prefix of s made of digits
RECURSIVE DigitPrefix(_)
DigitPrefix(s) ==
    IF s # <<>> /\ IsDigit(Head(s))
    THEN <<Head(s)>> \o DigitPrefix(Tail(s)) ELSE <<>>

RECURSIVE DigitsValue(_)
DigitsValue(s) ==
    IF s = <<>> THEN 0
    ELSE DigitsValue(SubSeq(s, 1, Len(s) - 1)) * 10 + DigitVal(s[Len(s)])

\* the decimals at the start of s, with their point: ".50" of ".50 kg"
PointPrefix(s) ==
    IF s # <<>> /\ Head(s) = "." THEN <<".">> \o DigitPrefix(Tail(s))
    ELSE <<>>

\* The literal made of the whole digits int and the decimals dec: whether
\* it is one (a point alone is none), its length, and its value in
\* hundredths (digits after the second decimal are cut).
LiteralOf(int, dec) ==
    [ok |-> int # <<>> \/ Len(dec) > 1,
     len |-> Len(int) + Len(dec),
     value |-> DigitsValue(int) * 100
                  + DigitsValue(SubSeq(dec \o <<"0", "0", "0">>, 2, 3))]

\* the decimal literal at the start of s, given the digits s starts with
LiteralAfter(s, int) ==
    LiteralOf(int, PointPrefix(SubSeq(s, Len(int) + 1, Len(s))))

UnsignedLiteral(s) == LiteralAfter(s, DigitPrefix(s))

\* a literal behind a minus sign
Negated(lit) == [lit EXCEPT !.len = @ + 1, !.value = -@]

\* the signed decimal literal at the start of s
Literal(s) ==
    IF s # <<>> /\ Head(s) = "-" THEN Negated(UnsignedLiteral(Tail(s)))
    ELSE UnsignedLiteral(s)

\* the number a literal stands for, when there is one
LiteralNumber(lit) == IF lit.ok THEN Number(lit.value) ELSE NaN

\* the number of a string that is a literal from end to end
WholeLiteralNumber(u, lit) ==
    IF u = <<>> THEN Number(0)
    ELSE IF lit.len = Len(u) THEN LiteralNumber(lit)
    ELSE NaN

WholeStringNumber(u) == WholeLiteralNumber(u, Literal(u))

\* parseFloat: leading blanks, then the longest decimal literal
ParseFloat(v) ==
    IF v.t = "number" THEN v
    ELSE IF v.t # "string" THEN NaN
    ELSE LiteralNumber(Literal(TrimStart(v.s)))

\* the number a value is compared as by <= : the whole string must be one
ToNumber(v) ==
    IF v.t = "number" THEN v
    ELSE IF v.t # "string" THEN NaN
    ELSE WholeStringNumber(Trim(v.s))

\* v <= 0
LessEqZero(v) == LET x == ToNumber(v) IN x.t = "number" /\ x.n <= 0

RECURSIVE NatToString(_)
NatToString(n) ==
    IF n < 10 THEN <<DigitChars[n + 1]>>
    ELSE NatToString(n \div 10) \o <<DigitChars[(n % 10) + 1]>>

\* Number.prototype.toString of h hundredths: 1250 is "12.5", 700 is "7"
NumberToString(h) ==
    LET a == IF h < 0 THEN -h ELSE h
        f == a % 100
    IN  (IF h < 0 THEN <<"-">> ELSE <<>>)
            \o NatToString(a \div 100)
            \o (IF f = 0 THEN <<>>
                ELSE IF f % 10 = 0 THEN <<".", DigitChars[(f \div 10) + 1]>>
                ELSE <<".", DigitChars[(f \div 10) + 1],
                       DigitChars[(f % 10) + 1]>>)

\* /^\d{4}-\d{2}-\d{2}$/.test(v)
DateRegexTest(v) ==
    /\ v.t = "string"
    /\ Len(v.s) = 10
    /\ \A i \in {1, 2, 3, 4, 6, 7, 9, 10} : IsDigit(v.s[i])
    /\ v.s[5] = "-" /\ v.s[8] = "-"

\* new Date(v) of a date-only string: midnight UTC of the day it names,
\* Invalid Date when it names no day
NewDate(v) ==
    IF ~DateRegexTest(v) THEN InvalidDate
    ELSE LET y == DigitsValue(SubSeq(v.s, 1, 4))
             m == DigitsValue(SubSeq(v.s, 6, 7))
             d == DigitsValue(SubSeq(v.s, 9, 10))
         IN  IF m \in 1..12 /\ d \in 1..31 THEN DateOf(y, m, d)
             ELSE InvalidDate

\* new Date(), at the time of the run: midday UTC of 15 June 2025
Now == DateAt(2025, 6, 15, 12)
\* new Date().toISOString().split('T')[0]: the UTC day of the run
TodayString == Str(<<"2", "0", "2", "5", "-", "0", "6", "-", "1", "5">>)
Today == Now

\* the calendar
DaysInMonth(y, m) ==
    IF m \in {4, 6, 9, 11} THEN 30
    ELSE IF m # 2 THEN 31
    ELSE IF y % 4 = 0 /\ (y % 100 # 0 \/ y % 400 = 0) THEN 29 ELSE 28
PrevDay(day) ==
    LET y == day \div 10000
        m == (day \div 100) % 100
        d == day % 100
    IN  IF d > 1 THEN day - 1
        ELSE IF m > 1 THEN y * 10000 + (m - 1) * 100 + DaysInMonth(y, m - 1)
        ELSE (y - 1) * 10000 + 1231
NextDay(day) ==
    LET y == day \div 10000
        m == (day \div 100) % 100
        d == day % 100
    IN  IF d < DaysInMonth(y, m) THEN day + 1
        ELSE IF m < 12 THEN y * 10000 + (m + 1) * 100 + 1
        ELSE (y + 1) * 10000 + 101

\* the calendar day (yyyymmdd) a Date shows as in a time zone tz hours
\* ahead of UTC: what format(date, "PPP") and the Calendar display
LocalDay(date, tz) ==
    LET day == date.n \div 100
        hour == (date.n % 100) + tz
    IN  IF hour < 0 THEN PrevDay(day)
        ELSE IF hour >= 24 THEN NextDay(day)
        ELSE day

(***************************************************************************)
(* scanReceipt: the server action that normalises the AI's answer.         *)
(***************************************************************************)
ReceiptPlaceholder == Str(<<"R", "e", "c", "e", "i", "p", "t", " ",
    "T", "r", "a", "n", "s", "a", "c", "t", "i", "o", "n">>)

NoDraft == [amount |-> Undefined, description |-> Undefined,
            date |-> Undefined, category |-> Undefined]

\* the catch clause: whatever was thrown is thrown again, its message
\* behind a fixed prefix
ScanFailure(message) ==
    [success |-> FALSE, message |-> "Failed to scan receipt: " \o message,
     data |-> NoDraft]

\* the validation and normalisation of the parsed object
NormalizeParsed(parsed) ==
    IF Falsy(parsed.amount) \/ LessEqZero(parsed.amount)
    THEN ScanFailure("Could not extract amount from receipt")
    ELSE IF ParseFloat(parsed.amount).t = "NaN"
    THEN ScanFailure("Invalid amount in receipt")
    ELSE LET date1 == IF Falsy(parsed.date) THEN TodayString
                      ELSE parsed.date
             date2 == IF DateRegexTest(date1) THEN date1 ELSE TodayString
         IN  [success |-> TRUE, message |-> "none",
              data |-> [amount |-> ParseFloat(parsed.amount),
                        description |-> IF Falsy(parsed.description)
                                        THEN ReceiptPlaceholder
                                        ELSE parsed.description,
                        date |-> date2,
                        category |-> IF Falsy(parsed.category) THEN Str(<<>>)
                                     ELSE parsed.category]]

\* scanReceipt(receiptFile): ai is what the model call came to
ScanReceipt(userId, ai) ==
    IF userId = "null" THEN ScanFailure("Unauthorized")
    ELSE IF ai.kind = "serviceError" THEN ScanFailure("AI service error")
    ELSE IF ai.kind = "unparseable"
    THEN ScanFailure("Invalid response from AI. Please try again.")
    ELSE NormalizeParsed(ai.parsed)

(***************************************************************************)
(* The transaction form (AddTransactionForm), its receipt scanner          *)
(* (ReceiptScanner) and the draft reconciler (handleScanComplete).         *)
(***************************************************************************)
MaxScans == 2           \* receipt files the user picks in one behaviour
MaxFileSize == 5242880  \* 5 * 1024 * 1024 bytes
MaxRescans == 3         \* receipt files picked in a behaviour of RescanSpec

S_Food == <<"F", "o", "o", "d">>
S_food == <<"f", "o", "o", "d">>
S_Salary == <<"S", "a", "l", "a", "r", "y">>
S_Taxi == <<"T", "a", "x", "i">>
S_ImagePrefix == <<"i", "m", "a", "g", "e", "/">>
S_ImagePng == S_ImagePrefix \o <<"p", "n", "g">>
S_Pdf == <<"p", "d", "f">>
S_Jan31 == <<"2", "0", "2", "4", "-", "0", "1", "-", "3", "1">>
S_FOOD == <<"F", "O", "O", "D">>
S_Foo == <<"F", "o", "o">>
S_NoSuchDay == <<"2", "0", "2", "4", "-", "1", "3", "-", "4", "5">>
S_Decimal == <<"1", "2", ".", "5", "0">>

\* the categories prop, in the order the form is given them
Categories == <<
    [id |-> "c1", name |-> S_Food, type |-> "INCOME"],
    [id |-> "c2", name |-> S_Food, type |-> "EXPENSE"],
    [id |-> "c3", name |-> S_Salary, type |-> "INCOME"],
    [id |-> "c4", name |-> S_food, type |-> "EXPENSE"] >>

CategoryIds == {Categories[i].id : i \in 1..Len(Categories)}
CategoryType(id) ==
    LET i == CHOOSE j \in 1..Len(Categories) : Categories[j].id = id
    IN  Categories[i].type

\* categories.filter((category) => category.type === type), as ids
FilteredCategories(type) == {id \in CategoryIds : CategoryType(id) = type}

\* the search without its test on the category's type
RECURSIVE FindCategoryOfAnyType(_, _, _)
FindCategoryOfAnyType(categories, i, categoryName) ==
    IF i > Len(categories) THEN ""
    ELSE IF ToLowerCase(categories[i].name) = categoryName
         THEN categories[i].id
         ELSE FindCategoryOfAnyType(categories, i + 1, categoryName)

\* categories.find(cat => cat.name.toLowerCase() === categoryName
\*                        && cat.type === "EXPENSE"): the id found, or ""
RECURSIVE FindCategoryFrom(_, _, _)
FindCategoryFrom(categories, i, categoryName) ==
    IF i > Len(categories) THEN ""
    ELSE IF /\ ToLowerCase(categories[i].name) = categoryName
            /\ categories[i].type = "EXPENSE"
         THEN categories[i].id
         ELSE FindCategoryFrom(categories, i + 1, categoryName)

FindCategory(categories, categoryName) ==
    FindCategoryFrom(categories, 1, categoryName)

\* String.prototype.startsWith
StartsWith(s, prefix) ==
    Len(s) >= Len(prefix) /\ SubSeq(s, 1, Len(prefix)) = prefix

NoResponse == [scan |-> 0, success |-> FALSE, data |-> NoDraft]
NoError == [scan |-> 0, message |-> "none"]
NoTimer == [scan |-> 0, data |-> NoDraft]

\* setValue(name, value)
SetValue(u, name, value) == [u EXCEPT !.form[name] = value]

\* a setValue of the reconciler, for draft scan: the write is noted with
\* the type the form has once it is made
DraftWrite(u, scan, name, value) ==
    [u EXCEPT !.form[name] = value,
              !.writes = Append(@, [scan |-> scan, field |-> name,
                                    type |-> IF name = "type" THEN value
                                             ELSE u.form.type])]

\* handleScanComplete(scannedData), up to the setTimeout call.  The
\* description of a draft that is not a string has no trim method: the
\* TypeError is caught, and the catch clears the flag.
HandleScanComplete(u, scan, d) ==
    IF u.isProcessingScan
    THEN [u EXCEPT !.dropped = Append(@, [scan |-> scan,
                                          applied |-> Len(u.applied)])]
    ELSE
    LET u0 == [u EXCEPT !.isProcessingScan = TRUE,
                        !.applied = Append(@, scan),
                        !.writes = <<>>]
        amount == ParseFloat(d.amount)
        u1 == IF /\ d.amount.t # "undefined"
                 /\ amount.t = "number" /\ amount.n > 0
              THEN DraftWrite(u0, scan, "amount",
                             Str(NumberToString(amount.n)))
              ELSE u0
        date == NewDate(d.date)
        u2 == IF ~Falsy(d.date) /\ date.t = "date"
              THEN DraftWrite(u1, scan, "date", date) ELSE u1
    IN  IF ~Falsy(d.description) /\ d.description.t # "string"
        THEN [u2 EXCEPT !.isProcessingScan = FALSE]
        ELSE
        LET u3 == IF ~Falsy(d.description) /\ Trim(d.description.s) # <<>>
                  THEN DraftWrite(u2, scan, "description", d.description)
                  ELSE u2
            u4 == [DraftWrite(u3, scan, "type", "EXPENSE") EXCEPT
                      !.typeWriter = IF u3.form.type # "EXPENSE"
                                     THEN "reconciler" ELSE @]
        IN  [u4 EXCEPT !.timer = [scan |-> scan, data |-> d]]

\* the setTimeout callback of handleScanComplete.  A category that is not a
\* string has no trim method: the TypeError leaves the callback, which is
\* outside the try block, before the flag is cleared.
TimerCallback(u) ==
    LET d == u.timer.data
        u0 == [u EXCEPT !.timer = NoTimer]
    IN  IF ~Falsy(d.category) /\ d.category.t # "string" THEN u0
        ELSE
        LET found == IF ~Falsy(d.category) /\ Trim(d.category.s) # <<>>
                     THEN FindCategory(Categories, ToLowerCase(d.category.s))
                     ELSE ""
        IN  [DraftWrite(u0, u.timer.scan, "category", found) EXCEPT
                !.isProcessingScan = FALSE,
                !.catWriter = "reconciler"]

\* the effect without its comparison against prevTypeRef: it would clear
\* the category on every run, the one on mount included
TypeEffectOnEveryRun(u, type) ==
    LET u1 == IF ~u.isProcessingScan
              THEN [SetValue(u, "category", "") EXCEPT !.catWriter = "rule"]
              ELSE u
    IN  [u1 EXCEPT !.prevTypeRef = type]

\* the effect on [type, setValue]: clear the category when the type changed
TypeEffect(u, type) ==
    LET clears == /\ ~u.isProcessingScan
                  /\ u.prevTypeRef # type
                  /\ u.prevTypeRef # "undefined"
        u1 == IF clears
              THEN [SetValue(u, "category", "") EXCEPT
                      !.undone = @ \/ (/\ u.catWriter = "reconciler"
                                       /\ u.typeWriter = "reconciler"
                                       /\ u.form.category # ""),
                      !.catWriter = "rule"]
              ELSE u
    IN  [u1 EXCEPT !.prevTypeRef = type]

\* the effect on [scannedData, scanReceiptLoading, onScanComplete]
ScanSuccessEffect(u) ==
    IF u.data # NoResponse /\ ~u.loading /\ ~u.hasShownToastRef
    THEN IF u.data.success
         THEN [HandleScanComplete(u, u.data.scan, u.data.data) EXCEPT
                  !.hasShownToastRef = TRUE]
         ELSE [u EXCEPT !.hasShownToastRef = TRUE]
    ELSE u

\* the effect on [scanError, scanReceiptLoading]
ScanErrorEffect(u) ==
    IF u.error # NoError /\ ~u.loading /\ ~u.hasShownToastRef
    THEN [u EXCEPT !.hasShownToastRef = TRUE]
    ELSE u

\* useFetch(scanReceipt): fn sets loading and clears the error, then keeps
\* the response as data, or the thrown error as error, and clears loading
UseFetchCall(u) == [u EXCEPT !.loading = TRUE, !.error = NoError]
UseFetchResolve(u, response) ==
    [u EXCEPT !.data = response, !.error = NoError, !.loading = FALSE]
UseFetchReject(u, err) == [u EXCEPT !.error = err, !.loading = FALSE]

\* what the components render from
Watched(u) == <<u.form.type, u.form.date, u.form.category>>
ScanDeps(u) == <<u.data.scan, u.loading>>
ErrorDeps(u) == <<u.error.scan, u.loading>>

RenderPending(u) ==
    \/ Watched(u) # u.renderedWatch
    \/ ~u.editMode /\ (ScanDeps(u) # u.scanDeps \/ ErrorDeps(u) # u.errorDeps)

\* the form is on screen: rendered once, and the user has not left the page
Mounted(u) == u.typeEffectDep # "unset" /\ ~u.unmounted

\* One render and commit, with the effects whose dependencies changed:
\* the scanner's (a child of the form, and only in create mode) before the
\* form's.  A render of the form makes a new handleScanComplete, which is a
\* dependency of the scanner's first effect.
Commit(u) ==
    LET type == u.form.type
        formRenders == Watched(u) # u.renderedWatch
        runSuccess == ~u.editMode /\ (formRenders \/ ScanDeps(u) # u.scanDeps)
        runError == ~u.editMode /\ ErrorDeps(u) # u.errorDeps
        runType == type # u.typeEffectDep
        u1 == IF runSuccess THEN ScanSuccessEffect(u) ELSE u
        u2 == IF runError THEN ScanErrorEffect(u1) ELSE u1
        u3 == IF runType THEN TypeEffect(u2, type) ELSE u2
    IN  [u3 EXCEPT !.renderedWatch = Watched(u),
                   !.scanDeps = ScanDeps(u),
                   !.errorDeps = ErrorDeps(u),
                   !.typeEffectDep = type]

\* handleReceiptScan(file), with the render its state change causes
HandleReceiptScan(u, file) ==
    LET u0 == [u EXCEPT
                 !.hasShownToastRef = FALSE,
                 !.attempts = Append(@,
                     [status |-> "pending",
                      file |-> file,
                      answered |-> "none",
                      whileApplying |-> u.isProcessingScan,
                      consumedBefore |-> u.hasShownToastRef
                                            \/ u.data = NoResponse,
                      appliedBefore |-> Len(u.applied)])]
        n == Len(u0.attempts)
    IN  IF file.size > MaxFileSize \/ ~StartsWith(file.type, S_ImagePrefix)
        THEN [u0 EXCEPT !.attempts[n].status = "rejected"]
        ELSE Commit([UseFetchCall(u0) EXCEPT !.request = n])

Files == {[size |-> 1, type |-> S_ImagePng],
          [size |-> MaxFileSize + 1, type |-> S_ImagePng],
          [size |-> 1, type |-> S_Pdf]}
\* a file of no bytes that the browser reports as an image
EmptyFile == [size |-> 0, type |-> S_ImagePng]
ReceiptFiles == Files \cup {EmptyFile}

AiObjects == {
    [amount |-> Num(12), description |-> Str(S_Taxi),
     date |-> Str(S_Jan31), category |-> Str(S_Food)],
    [amount |-> Str(<<"7">>), description |-> Str(<<>>),
     date |-> Str(<<"x">>), category |-> Str(S_Salary)],
    [amount |-> Num(3), description |-> Num(5),
     date |-> Undefined, category |-> Str(S_food)],
    [amount |-> Num(4), description |-> Undefined,
     date |-> Undefined, category |-> Num(9)],
    [amount |-> Undefined, description |-> Str(S_Taxi),
     date |-> Str(S_Jan31), category |-> Str(S_Food)] }

AiResults ==
    {[kind |-> "serviceError", parsed |-> NoDraft],
     [kind |-> "unparseable", parsed |-> NoDraft]}
        \cup {[kind |-> "object", parsed |-> o] : o \in AiObjects}

\* what the model may answer for the first receipt of a form: every amount
\* with the other fields of a plain receipt, and a decimal amount with
\* every description, date and category
AmountInputs ==
    {Undefined, Num(0), Num(-1), Num(12), Str(S_Decimal), Str(<<"7">>),
     Str(<<"a", "b", "c">>), Str(<<"-", "3">>)}
DescriptionInputs == {Undefined, Str(<<>>), Str(<<" ">>), Str(S_Taxi)}
DateInputs == {Undefined, Str(<<"x">>), Str(S_Jan31), Str(S_NoSuchDay)}
CategoryInputs ==
    {Undefined, Str(<<>>), Str(<<" ">>), Str(S_Food), Str(S_food),
     Str(S_FOOD), Str(S_Foo), Str(S_Salary)}
DraftAiObjects ==
    [amount : AmountInputs, description : {Str(S_Taxi)},
     date : {Str(S_Jan31)}, category : {Str(S_Food)}]
        \cup [amount : {Str(S_Decimal)}, description : DescriptionInputs,
              date : DateInputs, category : CategoryInputs]
DraftAiResults ==
    {[kind |-> "serviceError", parsed |-> NoDraft],
     [kind |-> "unparseable", parsed |-> NoDraft]}
        \cup {[kind |-> "object", parsed |-> o] : o \in DraftAiObjects}
\* the browser's time zone, in hours ahead of UTC
TimeZones == {-5, 0, 5}

\* the form's defaultValues: a new transaction, or the one being edited
CreateDefaults ==
    [type |-> "EXPENSE", amount |-> Str(<<>>), description |-> Str(<<>>),
     category |-> "", date |-> Today]
EditDefaults ==
    {[type |-> "INCOME", amount |-> Str(<<"3", "0">>),
      description |-> Str(S_Salary), category |-> "c3",
      date |-> NewDate(Str(S_Jan31))],
     [type |-> "EXPENSE", amount |-> Str(<<"7">>),
      description |-> Str(S_Taxi), category |-> "c2",
      date |-> NewDate(Str(S_Jan31))]}

InitialUi(editMode, defaultValues) ==
    [editMode |-> editMode,
     tz |-> 0,
     defaultValues |-> defaultValues,
     form |-> defaultValues,
     isProcessingScan |-> FALSE,
     prevTypeRef |-> defaultValues.type,
     typeEffectDep |-> "unset",
     renderedWatch |-> <<"unset", Today, "">>,
     timer |-> NoTimer,
     loading |-> FALSE, data |-> NoResponse, error |-> NoError,
     request |-> 0,
     hasShownToastRef |-> FALSE,
     scanDeps |-> <<0, FALSE>>, errorDeps |-> <<0, FALSE>>,
     unmounted |-> FALSE,
     \* history, for the properties
     attempts |-> <<>>, applied |-> <<>>, dropped |-> <<>>,
     answer |-> NoDraft,
     writes |-> <<>>,
     typeWriter |-> "init", catWriter |-> "init", undone |-> FALSE,
     timerBeatRender |-> FALSE, formWhenLeft |-> "mounted"]

(***************************************************************************)
(* The form's steps.  A user's event is handled with the render and the    *)
(* effects it causes; a response, a timer or an effect's own writes cause  *)
(* a render that is committed later (CommitRender).                        *)
(***************************************************************************)
CommitRender ==
    /\ ~ui.unmounted
    /\ RenderPending(ui)
    /\ ui' = Commit(ui)
    /\ UNCHANGED <<db, call>>

\* the type Select's onValueChange
UserSetType(v) ==
    /\ Mounted(ui)
    /\ v # ui.form.type
    /\ ui' = Commit([SetValue(ui, "type", v) EXCEPT !.typeWriter = "user"])
    /\ UNCHANGED <<db, call>>

\* the category Select's onValueChange: it offers filteredCategories
UserSetCategory(id) ==
    /\ Mounted(ui)
    /\ ~RenderPending(ui)
    /\ id \in FilteredCategories(ui.form.type)
    /\ id # ui.form.category
    /\ ui' = Commit([SetValue(ui, "category", id) EXCEPT
                        !.catWriter = "user"])
    /\ UNCHANGED <<db, call>>

\* typing in the registered amount input
UserEditAmount(v) ==
    /\ Mounted(ui)
    /\ v # ui.form.amount
    /\ ui' = SetValue(ui, "amount", v)
    /\ UNCHANGED <<db, call>>

\* the file input's onChange; the button is disabled while a scan is loading
PickFile(file, limit) ==
    /\ Mounted(ui)
    /\ ~ui.editMode
    /\ ~ui.loading
    /\ Len(ui.attempts) < limit
    /\ ui' = HandleReceiptScan(ui, file)
    /\ UNCHANGED <<db, call>>

UserPickFile(file) == PickFile(file, MaxScans)

\* scanReceipt returns or throws, and useFetch takes the result
ScanResponse(userId, ai) ==
    /\ ui.request # 0
    /\ LET r == ScanReceipt(userId, ai)
           n == ui.request
           u0 == [ui EXCEPT !.request = 0,
                            !.answer = IF r.success THEN ai.parsed
                                       ELSE NoDraft,
                            !.attempts[n].answered =
                                IF userId = "null" THEN "none" ELSE ai.kind,
                            !.attempts[n].status =
                                IF r.success THEN "ok" ELSE "failed"]
       IN  ui' = IF r.success
                 THEN UseFetchResolve(u0, [scan |-> n, success |-> TRUE,
                                           data |-> r.data])
                 ELSE UseFetchReject(u0, [scan |-> n, message |-> r.message])
    /\ UNCHANGED <<db, call>>

\* the 100 ms timer of handleScanComplete fires: before or after the render
\* that the reconciler's own writes caused has been committed
TimerFire ==
    /\ ui.timer # NoTimer
    /\ ui' = [TimerCallback(ui) EXCEPT
                !.timerBeatRender = @ \/ (RenderPending(ui)
                                               /\ ~ui.unmounted)]
    /\ UNCHANGED <<db, call>>

\* The user leaves the page and the form is unmounted.  No effect of the
\* form has a cleanup: the timer of handleScanComplete is not cleared and
\* a scan that is under way is not cancelled.  Nothing is rendered again.
Unmount ==
    /\ Mounted(ui)
    /\ ui' = [ui EXCEPT !.unmounted = TRUE, !.formWhenLeft = ui.form]
    /\ UNCHANGED <<db, call>>

\* scanReceipt called as a server action: the user is looked up, the AI
\* service is asked, and its answer is normalised or the failure thrown
ScanReceiptCall(c, userId, ai) ==
    /\ call[c].pc = "idle"
    /\ db' = AuthGate(userId, db, GenerateContent(db))
    /\ UNCHANGED ui
    /\ LET r == ScanReceipt(userId, ai) IN
       call' = [call EXCEPT ![c] =
                  Ended(c, IF r.success THEN "done" ELSE "failed", "scan", 0,
                        NoData, "none",
                        IF r.success THEN "none" ELSE r.message)]

vars == <<db, call, ui>>

\* The store the actions start from: every account opened with
\* InitialBalance, and either no transaction yet or one transaction already
\* recorded, with its account's balance carrying it.
Init ==
    /\ \E seed \in {NoTxn} \cup [type : Types, amount : Amounts,
                                  accountId : Accounts] :
         db = [balance |-> [a \in Accounts |->
                    IF seed # NoTxn /\ seed.accountId = a
                    THEN InitialBalance
                            + BalanceChange(seed.type, seed.amount)
                    ELSE InitialBalance],
               txns |-> [i \in TxnIds |-> IF i = 1 THEN seed ELSE NoTxn],
               recordWrites |-> 0, balanceWrites |-> 0,
             rateRequests |-> 0, aiCalls |-> 0]
    /\ call = [c \in Calls |-> IdleCall]
    /\ ui = InitialUi(FALSE, CreateDefaults)

\* invocations are taken in order: which of them is which is immaterial
InOrder(c) == \A d \in Calls : d < c => call[d].pc # "idle"

Next ==
    \/ \E c \in Calls, data \in DataInputs, u \in UserIds, dec \in Decisions :
            InOrder(c) /\ CreateBegin(c, data, u, dec)
    \/ \E c \in Calls : CreateFindAccount(c)
    \/ \E c \in Calls, o \in Outcomes : CreateTransaction(c, o)
    \/ \E c \in Calls, id \in TxnIds, data \in DataInputs, u \in UserIds :
            InOrder(c) /\ UpdateBegin(c, id, data, u)
    \/ \E c \in Calls : UpdateFindOriginal(c)
    \/ \E c \in Calls, o \in Outcomes : UpdateTransaction(c, o)
    \/ \E c \in Calls, u \in UserIds, ai \in AiResults :
            InOrder(c) /\ ScanReceiptCall(c, u, ai)

Spec == Init /\ [][Next]_vars

(***************************************************************************)
(* The form on its own: the store is left as it is.                        *)
(***************************************************************************)
FormInit ==
    /\ db = [balance |-> [a \in Accounts |-> InitialBalance],
             txns |-> [i \in TxnIds |-> NoTxn],
             recordWrites |-> 0, balanceWrites |-> 0,
             rateRequests |-> 0, aiCalls |-> 0]
    /\ call = [c \in Calls |-> IdleCall]
    /\ \/ ui = InitialUi(FALSE, CreateDefaults)
       \/ \E d \in EditDefaults : ui = InitialUi(TRUE, d)

FormNext ==
    \/ CommitRender
    \/ \E v \in Types : UserSetType(v)
    \/ \E id \in CategoryIds : UserSetCategory(id)
    \/ UserEditAmount(Str(<<"9">>))
    \/ \E file \in Files : UserPickFile(file)
    \/ \E u \in {"null", "u1"}, ai \in AiResults : ScanResponse(u, ai)
    \/ TimerFire
    \/ Unmount

FormSpec == FormInit /\ [][FormNext]_vars

(***************************************************************************)
(* The scanner used again and again on a new-transaction form that the     *)
(* user does not otherwise touch.                                          *)
(***************************************************************************)
RescanInit ==
    /\ db = [balance |-> [a \in Accounts |-> InitialBalance],
             txns |-> [i \in TxnIds |-> NoTxn],
             recordWrites |-> 0, balanceWrites |-> 0,
             rateRequests |-> 0, aiCalls |-> 0]
    /\ call = [c \in Calls |-> IdleCall]
    /\ ui = InitialUi(FALSE, CreateDefaults)

RescanNext ==
    \/ CommitRender
    \/ \E file \in Files : PickFile(file, MaxRescans)
    \/ \E ai \in AiResults : ScanResponse("u1", ai)
    \/ TimerFire

RescanSpec == RescanInit /\ [][RescanNext]_vars

(***************************************************************************)
(* The first receipt scanned into a new-transaction form: the user sets    *)
(* the type and the category as they like, picks one file, and the draft   *)
(* is applied.  The model's answer and the browser's time zone range wide. *)
(***************************************************************************)
DraftInit ==
    /\ db = [balance |-> [a \in Accounts |-> InitialBalance],
             txns |-> [i \in TxnIds |-> NoTxn],
             recordWrites |-> 0, balanceWrites |-> 0,
             rateRequests |-> 0, aiCalls |-> 0]
    /\ call = [c \in Calls |-> IdleCall]
    /\ \E z \in TimeZones :
            ui = [InitialUi(FALSE, CreateDefaults) EXCEPT !.tz = z]

DraftNext ==
    \/ CommitRender
    \/ \E v \in Types : ui.attempts = <<>> /\ UserSetType(v)
    \/ \E id \in CategoryIds : ui.attempts = <<>> /\ UserSetCategory(id)
    \/ \E file \in ReceiptFiles :
            ui.attempts = <<>> /\ PickFile(file, MaxScans)
    \/ \E ai \in DraftAiResults : ScanResponse("u1", ai)
    \/ TimerFire

DraftSpec == DraftInit /\ [][DraftNext]_vars

(***************************************************************************)
(* JavaScript numbers.  A Number is an IEEE 754 double: a sign, and for a  *)
(* value other than zero the 53 bits of its significand, first bit 1,      *)
(* with the power of two of that first bit.  The sums of the ledger are    *)
(* computed on them as the engine computes them, rounding to nearest, ties *)
(* to even.  A natural number of any size is the sequence of its bits,     *)
(* most significant first and without leading zeros.                       *)
(***************************************************************************)
\* the bits of a double's significand
SignificandBits == 53
\* fraction bits worked out of a decimal before it is rounded
QuotientBits == 64

RECURSIVE BitsOfNat(_)
BitsOfNat(n) == IF n = 0 THEN <<>> ELSE Append(BitsOfNat(n \div 2), n % 2)

\* n zeros, none for a negative n
Zeros(n) == [i \in 1..(IF n > 0 THEN n ELSE 0) |-> 0]

StripZeros(b) ==
    IF \A i \in 1..Len(b) : b[i] = 0 THEN <<>>
    ELSE SubSeq(b, CHOOSE i \in 1..Len(b) :
                        b[i] = 1 /\ \A k \in 1..(i - 1) : b[k] = 0,
                Len(b))

\* b with zeros in front, n bits long
PadTo(b, n) == Zeros(n - Len(b)) \o b

\* a < b
LessBits(a, b) ==
    \/ Len(a) < Len(b)
    \/ /\ Len(a) = Len(b)
       /\ \E j \in 1..Len(a) :
            a[j] < b[j] /\ \A k \in 1..(j - 1) : a[k] = b[k]

\* the carry into place i of a + b, two bit sequences of one length: a
\* place behind i makes one, and the places between hand it on
CarryInto(a, b, i) ==
    IF \E j \in (i + 1)..Len(a) :
            a[j] + b[j] = 2 /\ \A k \in (i + 1)..(j - 1) : a[k] + b[k] = 1
    THEN 1 ELSE 0

\* the borrow from place i of a - b
BorrowFrom(a, b, i) ==
    IF \E j \in (i + 1)..Len(a) :
            a[j] < b[j] /\ \A k \in (i + 1)..(j - 1) : a[k] = b[k]
    THEN 1 ELSE 0

AddSameLen(a, b) ==
    (IF CarryInto(a, b, 0) = 1 THEN <<1>> ELSE <<>>)
        \o [i \in 1..Len(a) |-> (a[i] + b[i] + CarryInto(a, b, i)) % 2]

SubSameLen(a, b) ==
    [i \in 1..Len(a) |-> (a[i] - b[i] - BorrowFrom(a, b, i) + 2) % 2]

AddBits(a, b) == StripZeros(AddSameLen(PadTo(a, Len(b)), PadTo(b, Len(a))))
\* a - b, a >= b
SubBits(a, b) == StripZeros(SubSameLen(a, PadTo(b, Len(a))))

Zero == [neg |-> FALSE, exp |-> 0, bits |-> <<>>]

\* the double of a significand that needs no rounding: exp is the power of
\* two of its first bit.  A carry out of the rounding has made it one bit
\* longer, all zeros behind the first.
Exact(neg, exp, bits) ==
    IF Len(bits) > SignificandBits
    THEN [neg |-> neg, exp |-> exp + 1,
          bits |-> SubSeq(bits, 1, SignificandBits)]
    ELSE [neg |-> neg, exp |-> exp,
          bits |-> bits \o Zeros(SignificandBits - Len(bits))]

\* whether the bits cut from a significand round it up: more than half a
\* unit, or half a unit and an odd last place
RoundsUp(last, cut, sticky) ==
    /\ cut # <<>> /\ Head(cut) = 1
    /\ (last = 1 \/ sticky \/ StripZeros(Tail(cut)) # <<>>)

\* the double nearest to bits * 2^(exp - Len(bits) + 1), bits with no
\* leading zero; sticky: the exact value is a little more than that
Rounded(neg, exp, bits, sticky) ==
    IF bits = <<>> THEN Zero
    ELSE IF Len(bits) <= SignificandBits THEN Exact(neg, exp, bits)
    ELSE IF RoundsUp(bits[SignificandBits],
                     SubSeq(bits, SignificandBits + 1, Len(bits)), sticky)
    THEN Exact(neg, exp, AddBits(SubSeq(bits, 1, SignificandBits), <<1>>))
    ELSE Exact(neg, exp, SubSeq(bits, 1, SignificandBits))

PutBits(bits, q) == [q EXCEPT !.bits = bits \o @]

\* the first n bits of r / 100 behind the point, r < 100, and what is
\* left: sixteen bits at a time
RECURSIVE HundredthsBits(_, _)
HundredthsBits(r, n) ==
    IF n <= 0 THEN [bits |-> <<>>, rest |-> r]
    ELSE PutBits(PadTo(BitsOfNat((65536 * r) \div 100), 16),
                 HundredthsBits((65536 * r) % 100, n - 16))

\* the double nearest to a number of whole and fraction bits
NearestDouble(neg, whole, q) ==
    Rounded(neg, Len(StripZeros(whole \o q.bits)) - 1 - Len(q.bits),
            StripZeros(whole \o q.bits), q.rest # 0)

\* Decimal.prototype.toNumber, and the Number of a decimal literal: the
\* double nearest to h hundredths
DecimalToNumber(h) ==
    IF h < 0
    THEN NearestDouble(TRUE, BitsOfNat((-h) \div 100),
                       HundredthsBits((-h) % 100, QuotientBits))
    ELSE NearestDouble(FALSE, BitsOfNat(h \div 100),
                       HundredthsBits(h % 100, QuotientBits))

\* -x
Negate(x) == IF x = Zero THEN Zero ELSE [x EXCEPT !.neg = ~@]

\* the power of two of the last bit of a double's significand
LastExp(x) == x.exp - (SignificandBits - 1)

\* the significand of x counted in units of 2^unit
Scaled(x, unit) == x.bits \o Zeros(LastExp(x) - unit)

\* the double nearest to a - b or b - a, whichever is not negative, for
\* two naturals in units of 2^unit; neg is the sign of a
Difference(neg, a, b, unit) ==
    IF LessBits(a, b)
    THEN Rounded(~neg, unit + Len(SubBits(b, a)) - 1, SubBits(b, a), FALSE)
    ELSE Rounded(neg, unit + Len(SubBits(a, b)) - 1, SubBits(a, b), FALSE)

Sum(neg, a, b, unit) ==
    Rounded(neg, unit + Len(AddBits(a, b)) - 1, AddBits(a, b), FALSE)

AddScaled(x, y, unit) ==
    IF x.neg = y.neg THEN Sum(x.neg, Scaled(x, unit), Scaled(y, unit), unit)
    ELSE Difference(x.neg, Scaled(x, unit), Scaled(y, unit), unit)

Min(a, b) == IF a < b THEN a ELSE b

\* x + y
Add(x, y) ==
    IF x = Zero THEN y
    ELSE IF y = Zero THEN x
    ELSE AddScaled(x, y, Min(LastExp(x), LastExp(y)))

\* x - y
Subtract(x, y) == Add(x, Negate(y))

(***************************************************************************)
(* The ledger's arithmetic on amounts with decimals.  The store holds a    *)
(* Decimal and the actions compute on what toNumber() gives.  An account   *)
(* keeps the number its balance was last written from and the numbers it   *)
(* has been incremented by since; amounts of the store and of the form are *)
(* in hundredths.                                                          *)
(***************************************************************************)
\* amounts and opening balances, in hundredths: 0.10 .. 100 and 0.10 .. 500
MoneyAmounts == {10, 20, 30, 70, 3000, 10000}
MoneyBalances == {10, 500, 50000}
MoneyTxns == [type : Types, amount : MoneyAmounts]

\* data.type === "EXPENSE" ? -data.amount : data.amount
BalanceChangeOf(type, amount) ==
    IF type = "EXPENSE" THEN Negate(amount) ELSE amount

\* account.balance.toNumber() + balanceChange
NewBalanceOf(balance, type, amount) ==
    Add(balance, BalanceChangeOf(type, amount))

\* newBalanceChange - oldBalanceChange
NetBalanceChangeOf(original, data) ==
    Subtract(BalanceChangeOf(data.type, DecimalToNumber(data.amount)),
             BalanceChangeOf(original.type, DecimalToNumber(original.amount)))

\* the type whose balance change is the inverse
InverseType(type) == IF type = "EXPENSE" THEN "INCOME" ELSE "EXPENSE"

NoMoneyCall == [pc |-> "idle", data |-> NoTxn, net |-> Zero]

\* createTransaction's arithmetic: the new balance, computed from the
\* balance read, is written to the account
MoneyCreate(data) ==
    /\ call.pc = "idle"
    /\ db' = [db EXCEPT !.balance.written =
                  NewBalanceOf(@, data.type, DecimalToNumber(data.amount))]
    /\ call' = [call EXCEPT !.pc = "created", !.data = data]
    /\ UNCHANGED ui

\* the inverse change applied to the balance a create has left: a create
\* of the same amount and of the other type
MoneyReverse ==
    /\ call.pc = "created"
    /\ db' = [db EXCEPT !.balance.written =
                  NewBalanceOf(@, InverseType(call.data.type),
                               DecimalToNumber(call.data.amount))]
    /\ call' = [call EXCEPT !.pc = "reversed"]
    /\ UNCHANGED ui

\* updateTransaction's arithmetic: the net change, computed from the
\* stored record and the new data, is what the balance is incremented by
MoneyUpdate(data) ==
    /\ call.pc = "idle"
    /\ db' = [db EXCEPT !.txn = data,
                        !.balance.increments =
                            Append(@, NetBalanceChangeOf(db.txn, data))]
    /\ call' = [call EXCEPT !.pc = "updated", !.data = data,
                            !.net = NetBalanceChangeOf(db.txn, data)]
    /\ UNCHANGED ui

MoneyInit ==
    /\ \E b \in MoneyBalances, t \in MoneyTxns :
            db = [opening |-> b, original |-> t, txn |-> t,
                  balance |-> [written |-> DecimalToNumber(b),
                               increments |-> <<>>]]
    /\ call = NoMoneyCall
    /\ ui = InitialUi(FALSE, CreateDefaults)

MoneyNext ==
    \/ \E data \in MoneyTxns : MoneyCreate(data)
    \/ MoneyReverse
    \/ \E data \in MoneyTxns : MoneyUpdate(data)

MoneySpec == MoneyInit /\ [][MoneyNext]_vars

(***************************************************************************)
(* The recurrence fields of the record that createTransaction and          *)
(* updateTransaction write.  A date is the calendar day (yyyymmdd) it      *)
(* falls on where the server runs.                                         *)
(***************************************************************************)
\* a column that holds null
NoDate == 0
NoInterval == "null"

Intervals == {"DAILY", "WEEKLY", "MONTHLY", "YEARLY"}

\* The day that the fields year, month and day make once a Date has
\* brought them into range: a month past December is carried into the
\* year, days past the end of the month into the months after.
RECURSIVE DateFromFields(_, _, _)
DateFromFields(y, m, d) ==
    IF m > 12 THEN DateFromFields(y + 1, m - 12, d)
    ELSE IF d > DaysInMonth(y, m)
    THEN DateFromFields(y, m + 1, d - DaysInMonth(y, m))
    ELSE y * 10000 + m * 100 + d

\* getFullYear, getMonth (counted from 1 here) and getDate
GetFullYear(date) == date \div 10000
GetMonth(date) == (date \div 100) % 100
GetDate(date) == date % 100

\* date.setDate(n), date.setMonth(n), date.setFullYear(n)
SetDate(date, n) == DateFromFields(GetFullYear(date), GetMonth(date), n)
SetMonth(date, n) == DateFromFields(GetFullYear(date), n, GetDate(date))
SetFullYear(date, n) == DateFromFields(n, GetMonth(date), GetDate(date))

\* calculateNextRecurringDate(startDate, interval): the switch has no
\* default, an interval it does not name leaves the date as it is
CalculateNextRecurringDate(startDate, interval) ==
    CASE interval = "DAILY" -> SetDate(startDate, GetDate(startDate) + 1)
      [] interval = "WEEKLY" -> SetDate(startDate, GetDate(startDate) + 7)
      [] interval = "MONTHLY" -> SetMonth(startDate, GetMonth(startDate) + 1)
      [] interval = "YEARLY" ->
            SetFullYear(startDate, GetFullYear(startDate) + 1)
      [] OTHER -> startDate

\* { ...data, nextRecurringDate: data.isRecurring &&
\*   data.recurringInterval ? calculateNextRecurringDate(...) : null }
RecurrenceRecord(data) ==
    [date |-> data.date,
     isRecurring |-> data.isRecurring,
     recurringInterval |-> data.recurringInterval,
     nextRecurringDate |->
        IF data.isRecurring /\ data.recurringInterval # NoInterval
        THEN CalculateNextRecurringDate(data.date, data.recurringInterval)
        ELSE NoDate]

\* the days the transactions are dated: ends of months, a leap day, the
\* end of a year and a day in the middle of a month
RecurDates ==
    {20240131, 20250131, 20240229, 20250228, 20240330, 20250531,
     20241231, 20250615}
RecurDataInputs ==
    [date : RecurDates, isRecurring : BOOLEAN,
     recurringInterval : Intervals \cup {NoInterval}]
NoRecord == [date |-> NoDate, isRecurring |-> FALSE,
             recurringInterval |-> NoInterval, nextRecurringDate |-> NoDate]

\* tx.transaction.create({ data: {...} })
RecurCreate(data) ==
    /\ db.txn = NoRecord
    /\ db' = [db EXCEPT !.txn = RecurrenceRecord(data)]
    /\ call' = [pc |-> "created", data |-> data]
    /\ UNCHANGED ui

\* tx.transaction.update({ where: {...}, data: {...} })
RecurUpdate(data) ==
    /\ call.pc = "created"
    /\ db' = [db EXCEPT !.txn = RecurrenceRecord(data)]
    /\ call' = [pc |-> "updated", data |-> data]
    /\ UNCHANGED ui

RecurInit ==
    /\ db = [txn |-> NoRecord]
    /\ call = [pc |-> "idle", data |-> NoRecord]
    /\ ui = InitialUi(FALSE, CreateDefaults)

RecurNext ==
    \/ \E data \in RecurDataInputs : RecurCreate(data)
    \/ \E data \in RecurDataInputs : RecurUpdate(data)

RecurSpec == RecurInit /\ [][RecurNext]_vars

(***************************************************************************)
(* The ledger's properties.                                                *)
(***************************************************************************)
\* every account's balance is its opening balance plus the signed sum of
\* the transactions recorded against it
LedgerBalanced ==
    \A a \in Accounts :
        db.balance[a] = InitialBalance + SignedSum(db.txns, a)

Done(c) == call[c].pc = "done"
Sequential == \A c \in Calls : ~call[c].overlapped

\* C1: after any sequence of committed createTransaction and
\* updateTransaction calls executed one at a time, every account's balance
\* equals its initial balance plus the signed sum of the transactions
\* recorded against it.
C1_SequentialLedgerBalanced == Sequential => LedgerBalanced

\* C2: when two createTransaction calls for the same account overlap and
\* both commit, the account's balance is the initial balance plus both
\* signed deltas (and so, the created rows being the only change, the
\* signed sum of its rows).
C2_OverlappingCreatesKeepBothDeltas ==
    \A c, d \in Calls :
        (/\ c # d /\ Done(c) /\ Done(d)
         /\ call[c].op = "create" /\ call[d].op = "create"
         /\ call[c].overlapped /\ call[d].overlapped
         /\ call[c].data.accountId = call[d].data.accountId
         /\ \A e \in Calls \ {c, d} : ~Done(e))
        => db.balance[call[c].data.accountId]
             = InitialBalance + SignedSum(db.txns, call[c].data.accountId)

\* C3: when two updateTransaction calls on the same transaction overlap
\* and both commit (neither moving it to another account), the account's
\* balance afterwards is the balance before both plus the signed delta of
\* the finally stored record minus that of the originally stored record:
\* the ledger being balanced before, it is balanced after.
C3_OverlappingUpdatesUseFreshOriginal ==
    \A c, d \in Calls :
        (/\ c # d /\ Done(c) /\ Done(d)
         /\ call[c].op = "update" /\ call[d].op = "update"
         /\ call[c].id = call[d].id
         /\ call[c].overlapped /\ call[d].overlapped
         /\ call[c].data.accountId = call[c].original.accountId
         /\ call[d].data.accountId = call[d].original.accountId
         /\ \A e \in Calls \ {c, d} : ~Done(e))
        => db.balance[call[c].data.accountId]
             = InitialBalance + SignedSum(db.txns, call[c].data.accountId)

\* C4: the transaction-record write and the account-balance write of
\* createTransaction and of updateTransaction are one atomic unit: the
\* store never holds a record write without its balance write, nor a
\* balance write without its record write.
C4_RecordAndBalanceWrittenTogether ==
    db.recordWrites = db.balanceWrites

\* a balance write failed after the record write and another call committed
C4_Witness ==
    \E c, d \in Calls :
        /\ call[c].outcome = "balanceWriteFails"
        /\ call[c].op = "update"
        /\ Done(d)

(***************************************************************************)
(* The reconciler's properties.                                            *)
(***************************************************************************)
Applications(n) == {i \in 1..Len(ui.applied) : ui.applied[i] = n}
Idle == Mounted(ui) /\ ~ui.isProcessingScan /\ ~RenderPending(ui)
\* every render so far was committed before the reconciler's timer fired
RendersKeptUp == ~ui.timerBeatRender

\* C5: a receipt scan started while a draft is being applied (the
\* in-flight flag set) is dropped entirely: whenever its result arrives,
\* none of its fields are written.  (Stated for the behaviours in which
\* renders keep up with the timer.)
C5_ScanStartedWhileApplyingIsDropped ==
    RendersKeptUp =>
        \A n \in 1..Len(ui.attempts) :
            ui.attempts[n].whileApplying => Applications(n) = {}

\* C6: once handleScanComplete has set the in-flight flag, the flag is
\* cleared whether the merge completes or throws at any step: the flag is
\* never left set with no step of the merge remaining to clear it.
C6_FlagSetOnlyWhileMergeRemains ==
    ui.isProcessingScan => ui.timer # NoTimer

\* C7: whenever the reconciler is idle, the category field is empty or the
\* id of a category whose type is the form's current type, also when the
\* user changes the type between the reconciler's type write and its
\* deferred category write.  (Stated for the behaviours in which renders
\* keep up with the timer.)
C7_IdleCategoryMatchesType ==
    (Idle /\ RendersKeptUp) =>
        \/ ui.form.category = ""
        \/ CategoryType(ui.form.category) = ui.form.type

\* C8: the type-change clearing rule never undoes the reconciler's own
\* category write: the category the reconciler set is still in place once
\* the rule has observed the type change the reconciler caused.
C8_RuleNeverUndoesReconciler == ~ui.undone

\* C9: every draft a successful scan produced is applied to the form at
\* most once, whatever happens later.
C9_DraftAppliedAtMostOnce ==
    \A n \in 1..Len(ui.attempts) : Cardinality(Applications(n)) <= 1

\* C10: when a scan attempt fails (file rejected, AI failure, unparseable
\* answer), no draft is applied as a result of it, also when an earlier
\* scan had succeeded and its draft had been consumed.
C10_FailedAttemptAppliesNothing ==
    ui.attempts # <<>> =>
        LET a == ui.attempts[Len(ui.attempts)] IN
        (a.status \in {"rejected", "failed"} /\ a.consumedBefore)
            => Len(ui.applied) = a.appliedBefore

\* C11: once the user has left the form (the component is unmounted), no
\* scan response and no deferred step of the reconciler writes a form
\* field: the fields stay as they were when the user left.
C11_NoFieldWriteAfterUnmount ==
    ui.unmounted => ui.form = ui.formWhenLeft

\* the user changes the type while no draft is being applied: no step of
\* a merge remains before the change, and none is started with it
UserChangesTypeOutsideScan ==
    /\ \E v \in Types : UserSetType(v)
    /\ ui.timer = NoTimer /\ ui'.timer = NoTimer

\* C12: whenever the user changes the transaction type while no draft is
\* being applied, the category is empty once the change has been handled,
\* that is before the form can next be submitted.  (Stated for the
\* behaviours in which renders keep up with the timer.)
C12_UserTypeChangeClearsCategory ==
    [][(UserChangesTypeOutsideScan /\ RendersKeptUp)
          => ui'.form.category = ""]_vars

\* C13: the category-clearing rule does not fire on initial mount.  A form
\* opened on an existing transaction (edit mode, of either type) keeps the
\* category it was given for as long as the user has not changed the type:
\* the rule has not written the category, and unless the user picked
\* another category the field holds the initial one.
C13_NoClearOnMount ==
    (ui.editMode /\ ui.typeWriter = "init") =>
        /\ ui.catWriter # "rule"
        /\ ui.catWriter = "init" =>
                ui.form.category = ui.defaultValues.category

\* an edit form has mounted, its type effect has run, and the category it
\* was given is still selected
C13_Witness ==
    /\ Mounted(ui) /\ ui.editMode /\ ui.typeWriter = "init"
    /\ ui.defaultValues.category = "c3"
    /\ ui.form.category = "c3"
    /\ ui.prevTypeRef = "INCOME"

\* C14: a draft delivered to handleScanComplete while the in-flight flag is
\* set writes no form field and leaves the flag (and the merge under way)
\* as it is, and it is not queued: the draft is not applied later, after
\* the flag has been cleared, either.
C14_DroppedDraftIsNeverApplied ==
    /\ ui.isProcessingScan =>
            \A o \in AiObjects :
                LET r == HandleScanComplete(ui, 1, o) IN
                /\ r.form = ui.form
                /\ r.isProcessingScan
                /\ r.timer = ui.timer
                /\ r.applied = ui.applied
    /\ \A k \in 1..Len(ui.dropped) :
            \A i \in 1..Len(ui.applied) :
                i > ui.dropped[k].applied
                    => ui.applied[i] # ui.dropped[k].scan

(***************************************************************************)
(* The normaliser's and the resolver's properties.                         *)
(***************************************************************************)
\* C15: for every answer of the model that parses as a JSON object the
\* scan succeeds with a complete draft and never fails, also when the
\* amount is missing or is no finite number greater than 0.
C15_ParsedAnswerNeverFails ==
    \A n \in 1..Len(ui.attempts) :
        ui.attempts[n].answered = "object" => ui.attempts[n].status = "ok"

\* absent, empty, or blank after trimming
Blank(v) == Falsy(v) \/ (v.t = "string" /\ Trim(v.s) = <<>>)

\* C16: when the description the model extracted is absent, empty or
\* blank after trimming, the draft's description is the placeholder
\* "Receipt Transaction", and once the draft is applied the form's
\* description field holds the placeholder.
C16_BlankDescriptionBecomesPlaceholder ==
    (ui.answer # NoDraft /\ Blank(ui.answer.description)) =>
        /\ ui.data.data.description = ReceiptPlaceholder
        /\ ui.applied # <<>> => ui.form.description = ReceiptPlaceholder

\* the candidates a suggestion resolves to: the categories of the form's
\* type whose name is the suggestion but for case, by position
Candidates(suggestion) ==
    {i \in 1..Len(Categories) :
        /\ Categories[i].type = ui.form.type
        /\ ToLowerCase(Categories[i].name) = ToLowerCase(suggestion)}

\* C17: category resolution gives the id of the first candidate category
\* whose type is the transaction's type and whose name equals the
\* suggestion ignoring case; it gives no category (Unresolved) for an empty
\* suggestion, for one that is only a prefix of a name, and for a name that
\* exists only under the other type.
C17_ResolutionIsExactAndTyped ==
    (ui.catWriter = "reconciler" /\ ui.answer # NoDraft) =>
        LET suggestion == ui.data.data.category.s
            found == Candidates(suggestion)
        IN  IF found = {} THEN ui.form.category = ""
            ELSE \E i \in found :
                    /\ \A j \in found : i <= j
                    /\ ui.form.category = Categories[i].id

\* the suggestion "FOOD" was resolved to the first EXPENSE category named
\* Food, although an INCOME category of that name comes before it
C17_Witness ==
    /\ ui.catWriter = "reconciler"
    /\ ui.data.data.category = Str(S_FOOD)
    /\ ui.form.type = "EXPENSE"
    /\ ui.form.category = "c2"

\* the answer of the scenario: a positive amount as a numeric string, an
\* empty description, a date that is no YYYY-MM-DD, and the name of an
\* EXPENSE category
ScenarioAnswer ==
    /\ ui.answer.amount = Str(S_Decimal)
    /\ ui.answer.description = Str(<<>>)
    /\ ui.answer.date = Str(<<"x">>)
    /\ ui.answer.category = Str(S_Food)
\* the draft has been applied to the end: the deferred category write is
\* done and rendered
ApplicationEnded ==
    /\ ui.applied # <<>> /\ ui.timer = NoTimer /\ ~ui.isProcessingScan
    /\ ~RenderPending(ui)

\* C18: for that answer, draft application ends with the form holding the
\* amount as a number, the description "Receipt Transaction", the current
\* date (the day it is for the user), the type EXPENSE and the id of the
\* category named, whatever the form's type and category were before.
\* (Stated for the behaviours in which renders keep up with the timer.)
C18_ScenarioFillsTheForm ==
    (ScenarioAnswer /\ ApplicationEnded /\ RendersKeptUp) =>
        /\ ToNumber(ui.form.amount) = ToNumber(ui.answer.amount)
        /\ ui.form.description = ReceiptPlaceholder
        /\ LocalDay(ui.form.date, ui.tz) = LocalDay(Now, ui.tz)
        /\ ui.form.type = "EXPENSE"
        /\ ui.form.category = "c2"

\* a receipt file the extraction must not be given
InvalidFile(file) ==
    \/ file.size = 0
    \/ file.size > MaxFileSize
    \/ ~StartsWith(file.type, S_ImagePrefix)

\* C19: a receipt file that is empty, larger than 5 MiB or not of an
\* image type is rejected before the scan is requested: its attempt is a
\* rejected one and the model is never asked about it.
C19_InvalidFileRejectedBeforeAiCall ==
    \A n \in 1..Len(ui.attempts) :
        InvalidFile(ui.attempts[n].file) =>
            /\ ui.attempts[n].status = "rejected"
            /\ ui.attempts[n].answered = "none"

(***************************************************************************)
(* The server actions' guards.                                             *)
(***************************************************************************)
\* invocation c is made with no user signed in
CalledSignedOut(c) ==
    \/ \E data \in DataInputs, dec \in Decisions :
            CreateBegin(c, data, "null", dec)
    \/ \E id \in TxnIds, data \in DataInputs :
            UpdateBegin(c, id, data, "null")
    \/ \E ai \in AiResults : ScanReceiptCall(c, "null", ai)

\* C20: with no authenticated user id, scanReceipt, createTransaction and
\* updateTransaction each fail with Unauthorized and have no side effect:
\* the invocation ends at once as failed, and the store, the rate limiter's
\* count and the count of AI calls are as they were.
C20_SignedOutCallHasNoEffect ==
    [][\A c \in Calls :
          CalledSignedOut(c) =>
              /\ db' = db
              /\ call'[c].pc = "failed"
              /\ call'[c].error \in
                    {"Unauthorized", "Failed to scan receipt: Unauthorized"}]_vars

\* a scan and a create were both refused for want of a user, and neither
\* the AI service nor the rate limiter was reached
C20_Witness ==
    \E c, d \in Calls :
        /\ call[c].op = "scan"
        /\ call[c].error = "Failed to scan receipt: Unauthorized"
        /\ call[d].op = "create"
        /\ call[d].error = "Unauthorized"
        /\ db.aiCalls = 0 /\ db.rateRequests = 0


\* invocation c of createTransaction is made by a signed-in user and the
\* rate limiter denies it
CreateDenied(c) ==
    \E data \in DataInputs, u \in UserIds \ {"null"},
       dec \in Decisions \ {"allow"} : CreateBegin(c, data, u, dec)

\* C21: the rate limiter is consulted before transaction creation, and
\* when it denies the request createTransaction fails (too many requests,
\* or request blocked) with the store unchanged: the limiter has counted
\* the request, the invocation ends at once as failed, no transaction
\* record is created and no account balance is modified.
C21_DeniedCreateLeavesStore ==
    [][\A c \in Calls :
          CreateDenied(c) =>
              /\ db'.rateRequests = db.rateRequests + 1
              /\ call'[c].pc = "failed"
              /\ call'[c].error \in
                    {"Too many requests. Please try again later.",
                     "Request blocked"}
              /\ db'.txns = db.txns
              /\ db'.balance = db.balance
              /\ db'.recordWrites = db.recordWrites
              /\ db'.balanceWrites = db.balanceWrites]_vars

\* one create was refused for the rate limit and another blocked, the
\* limiter was asked both times, and nothing was written
C21_Witness ==
    \E c, d \in Calls :
        /\ call[c].op = "create" /\ call[d].op = "create"
        /\ call[c].error = "Too many requests. Please try again later."
        /\ call[d].error = "Request blocked"
        /\ db.rateRequests = 2
        /\ db.recordWrites = 0 /\ db.balanceWrites = 0


(***************************************************************************)
(* The arithmetic's properties.                                            *)
(***************************************************************************)
\* the change of a transaction in hundredths, worked out in integers
Delta(txn) == IF txn.type = "EXPENSE" THEN -txn.amount ELSE txn.amount

\* C22: for every original (type, amount) and every new (type, amount), a
\* committed updateTransaction changes the account balance by exactly
\* newDelta - oldDelta: the balance is incremented once, by the number
\* that newDelta - oldDelta is.
C22_UpdateAppliesExactNetDelta ==
    call.pc = "updated" =>
        db.balance.increments
            = <<DecimalToNumber(Delta(call.data) - Delta(db.original))>>

\* C23: for every balance and every valid (type, amount) pair, applying
\* the create delta and then applying the inverse delta restores the
\* original balance.
C23_InverseDeltaRestoresBalance ==
    call.pc = "reversed" => db.balance.written = DecimalToNumber(db.opening)


(***************************************************************************)
(* The recurrence fields' properties.                                      *)
(***************************************************************************)
\* C24: every transaction record written by createTransaction or
\* updateTransaction satisfies: recurringInterval is present if and only
\* if isRecurring is true, and nextRecurringDate is present if and only if
\* both are set, in which case it is strictly after the transaction's
\* date.
C24_RecurrenceFieldsAgree ==
    db.txn # NoRecord =>
        /\ (db.txn.recurringInterval # NoInterval) <=> db.txn.isRecurring
        /\ (db.txn.nextRecurringDate # NoDate) <=>
                (db.txn.isRecurring /\ db.txn.recurringInterval # NoInterval)
        /\ db.txn.nextRecurringDate # NoDate =>
                db.txn.nextRecurringDate > db.txn.date

\* the day d of a month, or the last day of the month when it has no
\* such day
ClampedDay(y, m, d) == y * 10000 + m * 100 + Min(d, DaysInMonth(y, m))

RECURSIVE DaysAfter(_, _)
DaysAfter(date, n) == IF n = 0 THEN date ELSE DaysAfter(NextDay(date), n - 1)

\* one interval added to a date by the calendar
CalendarNext(date, interval) ==
    CASE interval = "DAILY" -> DaysAfter(date, 1)
      [] interval = "WEEKLY" -> DaysAfter(date, 7)
      [] interval = "MONTHLY" ->
            IF GetMonth(date) = 12
            THEN ClampedDay(GetFullYear(date) + 1, 1, GetDate(date))
            ELSE ClampedDay(GetFullYear(date), GetMonth(date) + 1,
                            GetDate(date))
      [] interval = "YEARLY" ->
            ClampedDay(GetFullYear(date) + 1, GetMonth(date), GetDate(date))

\* C25: calculateNextRecurringDate adds exactly one unit of the interval
\* to the date, and for MONTHLY and YEARLY it follows standard calendar
\* rollover: when the target month has no such day the result is the last
\* day of the target month, never a day of the following month.
C25_NextDateFollowsCalendar ==
    db.txn.nextRecurringDate # NoDate =>
        db.txn.nextRecurringDate
            = CalendarNext(db.txn.date, db.txn.recurringInterval)


(***************************************************************************)
(* The order of a draft's writes.                                          *)
(***************************************************************************)
\* the place of a field in the order of draft application
FieldRank(field) ==
    CASE field = "amount" -> 1
      [] field = "date" -> 2
      [] field = "description" -> 3
      [] field = "type" -> 4
      [] field = "category" -> 5

\* the writes of the application are in the fixed order
WritesInOrder ==
    \A i, j \in 1..Len(ui.writes) :
        i < j => FieldRank(ui.writes[i].field) < FieldRank(ui.writes[j].field)

\* the writes of the application are all of one draft
WritesOfOneDraft ==
    \A i \in 1..Len(ui.writes) : ui.writes[i].scan = ui.writes[1].scan

\* C26: within one draft application the field writes happen in the fixed
\* order amount, date, description, type, category: the type field is
\* already EXPENSE when category resolution runs and the category field
\* is written, and no write of another draft occurs between the first and
\* the last write of this draft.
C26_DraftWritesOrdered ==
    /\ WritesInOrder
    /\ WritesOfOneDraft
    /\ \A i \in 1..Len(ui.writes) :
            ui.writes[i].field = "category" => ui.writes[i].type = "EXPENSE"

\* the EXPENSE categories a suggestion names, but for case
ExpenseMatches(category) ==
    {i \in 1..Len(Categories) :
        /\ Categories[i].type = "EXPENSE"
        /\ category.t = "string"
        /\ ToLowerCase(Categories[i].name) = ToLowerCase(category.s)}

\* C27: when a draft's category suggestion is empty or matches no EXPENSE
\* category, draft application sets the category field to empty, whatever
\* it held before: once the deferred step of the application has run, the
\* category field is empty.
C27_UnresolvedCategoryIsCleared ==
    [][(TimerFire /\ ExpenseMatches(ui.timer.data.category) = {})
            => ui'.form.category = ""]_vars


\* call c commits an update that moves its transaction to another account
MovesAccount(c) ==
    /\ UpdateTransaction(c, "commit")
    /\ db.txns[call[c].id] # NoTxn
    /\ db.txns[call[c].id].accountId \in Accounts
    /\ call[c].data.accountId \in Accounts
    /\ call[c].data.accountId # db.txns[call[c].id].accountId

\* C28: when updateTransaction moves a transaction to a different account,
\* the original account's balance is changed by -oldDelta and the new
\* account's balance by +newDelta.
C28_MoveAdjustsBothAccounts ==
    [][\A c \in Calls :
        MovesAccount(c) =>
            LET stored == db.txns[call[c].id]
                data == call[c].data
            IN  /\ db'.balance[stored.accountId] =
                        db.balance[stored.accountId]
                            - BalanceChange(stored.type, stored.amount)
                /\ db'.balance[data.accountId] =
                        db.balance[data.accountId]
                            + BalanceChange(data.type, data.amount)]_vars

====
